---- MODULE Spec2Model ----
(***************************************************************************)
(* Admission control for v1beta1 ResourcePlacement objects.                *)
(*                                                                         *)
(* resourcePlacementValidator.Handle is modelled call by call.  One        *)
(* placement object lives in the store of the hosting control plane; every *)
(* request is handled in one step (the decision and, when the request is   *)
(* admitted, its effect on the stored object), and a second step returns   *)
(* the response and discards the request.                                  *)
(***************************************************************************)
EXTENDS Integers, Sequences, FiniteSets, TLC

VARIABLES
    store,          \* the stored placement object, or NoObj
    createdType,    \* placementType the stored object had when it was created
    createdValid,   \* whether the stored object passed static validation when created
    req,            \* the admission request being answered, or NoReq
    resp,           \* the admission response to req, or NoResp
    calls,          \* the decoder/validator calls Handle made for req, in order
    logs,           \* the klog entries Handle wrote for req, in order
    env,            \* start-up parameters and the state of the certificate directory
    config,         \* the webhook Config built at start-up, or NoConfig
    startErr,       \* the error that ended start-up, or NoErr
    certCalls,      \* the certificate strategies NewWebhookConfig ran, in order
    hooks,          \* the descriptor lists built from config, by builder
    routes,         \* the handlers registered with the webhook server: <<path, kind>>
    tasks,          \* concurrently handled requests: the locals of each Handle call
    finalizers      \* the finalizers that hold the stored object, where removal is followed

\* the state of request handling, of start-up, of concurrent handling and
\* of the removal of an object
reqVars == <<store, createdType, createdValid, req, resp, calls, logs>>
bootVars == <<env, config, startErr, certCalls, hooks, routes>>
concVars == <<tasks>>
metaVars == <<finalizers>>
vars == <<reqVars, bootVars, concVars, metaVars>>

----------------------------------------------------------------------------
(* Bounds *)

\* longest toleration list of a placement policy
MaxTolerations == 2

\* number of calls of Handle the webhook server runs at the same time
NumHandlers == 2

\* most finalizers on a placement object
MaxFinalizers == 2

----------------------------------------------------------------------------
(* Data model *)

NoObj == [none |-> "object"]
NoReq == [none |-> "request"]
NoResp == [none |-> "response"]
NoPolicy == [none |-> "policy"]
NoErr == "nil"
NoConfig == [none |-> "config"]
NoEnv == [none |-> "env"]
NoFile == [present |-> FALSE, content |-> ""]
NoHooks == [mutating |-> <<>>, validating |-> <<>>, guardRail |-> <<>>]
Malformed == [none |-> "malformed"]

\* admissionv1.Operation
Create == "CREATE"
Update == "UPDATE"
Delete == "DELETE"
Operations == {Create, Update, Delete}

\* placementv1beta1.PlacementType
PlacementTypes == {"PickAll", "PickN", "PickFixed"}

\* placementv1beta1.Toleration: two tolerations with the same key and
\* different values, so that one is the other "altered"
Tolerations == {[key |-> "k1", value |-> "v1"], [key |-> "k1", value |-> "v2"]}

RECURSIVE SeqsUpTo(_, _)
SeqsUpTo(S, n) ==
    IF n = 0 THEN {<<>>}
    ELSE LET shorter == SeqsUpTo(S, n - 1)
         IN  shorter \cup {Append(s, x) : s \in {t \in shorter : Len(t) = n - 1}, x \in S}

\* placementv1beta1.PlacementPolicy (a pointer: nil or a policy)
Policies ==
    {NoPolicy} \cup
    [placementType : PlacementTypes, tolerations : SeqsUpTo(Tolerations, MaxTolerations)]

\* what static validation finds in the fields of the spec other than the policy
FieldStates == {"ok", "emptySelector", "badStrategy"}

\* placementv1beta1.ResourcePlacement, as far as Handle and its collaborators read it
Objects == [policy : Policies, fields : FieldStates, deletionTimestamp : BOOLEAN]

\* the raw payload of a request: an encoded object or bytes that do not decode
RawObjects == Objects \cup {Malformed}

\* metadata.name of the placement object (req.Name, rp.Name)
ObjName == "rp-1"

\* authenticationv1.UserInfo of the requester: Username and Groups
Users == {[username |-> "alice", groups |-> {"developers"}],
          [username |-> "system:admin", groups |-> {"system:masters"}]}
Alice == [username |-> "alice", groups |-> {"developers"}]
Admin == [username |-> "system:admin", groups |-> {"system:masters"}]

----------------------------------------------------------------------------
(* Collaborators of Handle *)

\* webhook.AdmissionDecoder.Decode / DecodeRaw
Decode(raw) ==
    IF raw \in Objects THEN [err |-> NoErr, obj |-> raw]
    ELSE [err |-> "decode error", obj |-> NoObj]

\* validator.ValidateResourcePlacement: nil or the error of the first invalid field
ValidateResourcePlacement(obj) ==
    CASE obj.fields = "ok" -> NoErr
      [] obj.fields = "emptySelector" -> "the resource selectors cannot be empty"
      [] obj.fields = "badStrategy" -> "the rollout strategy is invalid"

\* PlacementPolicy.PlacementType, the zero value when the policy is absent
PlacementTypeOf(policy) ==
    IF policy = NoPolicy THEN "" ELSE policy.placementType

\* validator.IsPlacementPolicyTypeUpdated
IsPlacementPolicyTypeUpdated(oldPolicy, currentPolicy) ==
    PlacementTypeOf(oldPolicy) # PlacementTypeOf(currentPolicy)

\* PlacementSpec.Tolerations(): the policy's tolerations, nil when there is no policy
TolerationsOf(obj) ==
    IF obj.policy = NoPolicy THEN <<>> ELSE obj.policy.tolerations

Range(s) == {s[i] : i \in 1..Len(s)}

\* validator.IsTolerationsUpdatedOrDeleted: some old toleration is not,
\* unchanged, among the new ones
IsTolerationsUpdatedOrDeleted(oldTolerations, newTolerations) ==
    \E i \in 1..Len(oldTolerations) :
        \A j \in 1..Len(newTolerations) : newTolerations[j] # oldTolerations[i]

----------------------------------------------------------------------------
(* admission responses *)

allowUpdateOldInvalidRPFmt == "allow update on old invalid v1beta1 RP with DeletionTimestamp set"
denyUpdateOldInvalidRPFmt == "deny update on old invalid v1beta1 RP with DeletionTimestamp not set %s"
denyCreateUpdateInvalidRPFmt == "deny create/update v1beta1 RP has invalid fields %s"

StatusOK == 200
StatusBadRequest == 400
StatusForbidden == 403

\* admission.Allowed / Denied / Errored; reason is the format and its arguments
Allowed(reason) == [allowed |-> TRUE, code |-> StatusOK, reason |-> reason]
Denied(reason) == [allowed |-> FALSE, code |-> StatusForbidden, reason |-> reason]
Errored(code, err) == [allowed |-> FALSE, code |-> code, reason |-> <<err>>]

Out(r, c) == [resp |-> r, calls |-> c]

----------------------------------------------------------------------------
(* resourcePlacementValidator.Handle *)

\* mutant: the denial drops the validation error from its reason
ValidateNew_ErrorNotSurfaced(rp, c) ==
    LET err == ValidateResourcePlacement(rp)
        c1 == Append(c, "ValidateNew")
    IN  IF err # NoErr
        THEN Out(Denied(<<denyCreateUpdateInvalidRPFmt>>), c1)
        ELSE Out(Allowed(<<"any user is allowed to modify v1beta1 RP">>), c1)

\* lines 90-93 and 95-96: static validation of the new object, then Allow
ValidateNew(rp, c) ==
    LET err == ValidateResourcePlacement(rp)
        c1 == Append(c, "ValidateNew")
    IN  IF err # NoErr
        THEN Out(Denied(<<denyCreateUpdateInvalidRPFmt, err>>), c1)
        ELSE Out(Allowed(<<"any user is allowed to modify v1beta1 RP">>), c1)

\* mutant: the deletion exception is forgotten, every update of an invalid
\* old object is denied
OldInvalid_NoException(rp, err, c) ==
    Out(Denied(<<denyUpdateOldInvalidRPFmt, err>>), c)

\* mutant: the test of the deletion timestamp is inverted
OldInvalid_Inverted(rp, err, c) ==
    IF ~rp.deletionTimestamp
    THEN Out(Allowed(<<allowUpdateOldInvalidRPFmt>>), c)
    ELSE Out(Denied(<<denyUpdateOldInvalidRPFmt, err>>), c)

\* mutant: the deletion exception is given only to a new object that passes
\* static validation itself
OldInvalid_NewMustBeValid(rp, err, c) ==
    IF rp.deletionTimestamp /\ ValidateResourcePlacement(rp) = NoErr
    THEN Out(Allowed(<<allowUpdateOldInvalidRPFmt>>), c)
    ELSE Out(Denied(<<denyUpdateOldInvalidRPFmt, err>>), c)

\* lines 75-80: the old object fails static validation
OldInvalid(rp, err, c) ==
    IF rp.deletionTimestamp
    THEN Out(Allowed(<<allowUpdateOldInvalidRPFmt>>), c)
    ELSE Out(Denied(<<denyUpdateOldInvalidRPFmt, err>>), c)

\* mutant: the placement type check is missing
UpdateChecks_NoTypeCheck(oldRP, rp, c) ==
    LET c2 == Append(c, "IsTolerationsUpdatedOrDeleted")
    IN  IF IsTolerationsUpdatedOrDeleted(TolerationsOf(oldRP), TolerationsOf(rp))
        THEN Out(Denied(<<"tolerations have been updated/deleted, only additions to tolerations are allowed">>), c2)
        ELSE ValidateNew(rp, c2)

\* mutant: the toleration check gets its arguments in the wrong order
UpdateChecks_TolerationsSwapped(oldRP, rp, c) ==
    LET c1 == Append(c, "IsPlacementPolicyTypeUpdated")
        c2 == Append(c1, "IsTolerationsUpdatedOrDeleted")
    IN  IF IsPlacementPolicyTypeUpdated(oldRP.policy, rp.policy)
        THEN Out(Denied(<<"placement type is immutable">>), c1)
        ELSE IF IsTolerationsUpdatedOrDeleted(TolerationsOf(rp), TolerationsOf(oldRP))
        THEN Out(Denied(<<"tolerations have been updated/deleted, only additions to tolerations are allowed">>), c2)
        ELSE ValidateNew(rp, c2)

\* mutant: the placement type check is skipped when a policy is nil
UpdateChecks_TypeCheckNeedsPolicies(oldRP, rp, c) ==
    LET c1 == Append(c, "IsPlacementPolicyTypeUpdated")
        c2 == Append(c1, "IsTolerationsUpdatedOrDeleted")
    IN  IF /\ oldRP.policy # NoPolicy
           /\ rp.policy # NoPolicy
           /\ IsPlacementPolicyTypeUpdated(oldRP.policy, rp.policy)
        THEN Out(Denied(<<"placement type is immutable">>), c1)
        ELSE IF IsTolerationsUpdatedOrDeleted(TolerationsOf(oldRP), TolerationsOf(rp))
        THEN Out(Denied(<<"tolerations have been updated/deleted, only additions to tolerations are allowed">>), c2)
        ELSE ValidateNew(rp, c2)

\* mutant: the toleration check is missing
UpdateChecks_NoTolerationCheck(oldRP, rp, c) ==
    LET c1 == Append(c, "IsPlacementPolicyTypeUpdated")
    IN  IF IsPlacementPolicyTypeUpdated(oldRP.policy, rp.policy)
        THEN Out(Denied(<<"placement type is immutable">>), c1)
        ELSE ValidateNew(rp, c1)

\* mutant: the toleration check comes before the placement type check
UpdateChecks_TolerationsFirst(oldRP, rp, c) ==
    LET c1 == Append(c, "IsTolerationsUpdatedOrDeleted")
        c2 == Append(c1, "IsPlacementPolicyTypeUpdated")
    IN  IF IsTolerationsUpdatedOrDeleted(TolerationsOf(oldRP), TolerationsOf(rp))
        THEN Out(Denied(<<"tolerations have been updated/deleted, only additions to tolerations are allowed">>), c1)
        ELSE IF IsPlacementPolicyTypeUpdated(oldRP.policy, rp.policy)
        THEN Out(Denied(<<"placement type is immutable">>), c2)
        ELSE ValidateNew(rp, c2)

\* mutant: a nil policy is dereferenced and the handler fails
UpdateChecks_NilPolicyPanics(oldRP, rp, c) ==
    LET c1 == Append(c, "IsPlacementPolicyTypeUpdated")
        c2 == Append(c1, "IsTolerationsUpdatedOrDeleted")
    IN  IF oldRP.policy = NoPolicy \/ rp.policy = NoPolicy
        THEN Out([allowed |-> FALSE, code |-> 500, reason |-> <<"panic">>], c1)
        ELSE IF IsPlacementPolicyTypeUpdated(oldRP.policy, rp.policy)
        THEN Out(Denied(<<"placement type is immutable">>), c1)
        ELSE IF IsTolerationsUpdatedOrDeleted(TolerationsOf(oldRP), TolerationsOf(rp))
        THEN Out(Denied(<<"tolerations have been updated/deleted, only additions to tolerations are allowed">>), c2)
        ELSE ValidateNew(rp, c2)

\* mutant: a deletion marker on the new object skips the checks of a valid
\* old object too
UpdateChecks_DeletionBypasses(oldRP, rp, c) ==
    LET c1 == Append(c, "IsPlacementPolicyTypeUpdated")
        c2 == Append(c1, "IsTolerationsUpdatedOrDeleted")
    IN  IF rp.deletionTimestamp
        THEN Out(Allowed(<<allowUpdateOldInvalidRPFmt>>), c)
        ELSE IF IsPlacementPolicyTypeUpdated(oldRP.policy, rp.policy)
        THEN Out(Denied(<<"placement type is immutable">>), c1)
        ELSE IF IsTolerationsUpdatedOrDeleted(TolerationsOf(oldRP), TolerationsOf(rp))
        THEN Out(Denied(<<"tolerations have been updated/deleted, only additions to tolerations are allowed">>), c2)
        ELSE ValidateNew(rp, c2)

\* mutant: an update that passes the two policy checks is allowed without
\* validating the new object
UpdateChecks_NewNotValidated(oldRP, rp, c) ==
    LET c1 == Append(c, "IsPlacementPolicyTypeUpdated")
        c2 == Append(c1, "IsTolerationsUpdatedOrDeleted")
    IN  IF IsPlacementPolicyTypeUpdated(oldRP.policy, rp.policy)
        THEN Out(Denied(<<"placement type is immutable">>), c1)
        ELSE IF IsTolerationsUpdatedOrDeleted(TolerationsOf(oldRP), TolerationsOf(rp))
        THEN Out(Denied(<<"tolerations have been updated/deleted, only additions to tolerations are allowed">>), c2)
        ELSE Out(Allowed(<<"any user is allowed to modify v1beta1 RP">>), c2)

\* lines 81-88: placement type immutability, then toleration monotonicity
UpdateChecks(oldRP, rp, c) ==
    LET c1 == Append(c, "IsPlacementPolicyTypeUpdated")
        c2 == Append(c1, "IsTolerationsUpdatedOrDeleted")
    IN  IF IsPlacementPolicyTypeUpdated(oldRP.policy, rp.policy)
        THEN Out(Denied(<<"placement type is immutable">>), c1)
        ELSE IF IsTolerationsUpdatedOrDeleted(TolerationsOf(oldRP), TolerationsOf(rp))
        THEN Out(Denied(<<"tolerations have been updated/deleted, only additions to tolerations are allowed">>), c2)
        ELSE ValidateNew(rp, c2)

\* mutant: the old object is decoded but not validated
HandleUpdate_OldNotValidated(r, rp, c) ==
    LET dOld == Decode(r.oldObject)
        c1 == Append(c, "DecodeRaw")
    IN  IF dOld.err # NoErr
        THEN Out(Errored(StatusBadRequest, dOld.err), c1)
        ELSE UpdateChecks(dOld.obj, rp, c1)

\* mutant: the return after a failed decode of the old object is missing,
\* the checks go on with the zero value of the old object
HandleUpdate_OldDecodeErrorIgnored(r, rp, c) ==
    LET dOld == Decode(r.oldObject)
        c2 == Append(Append(c, "DecodeRaw"), "ValidateOld")
        oldRP == IF dOld.err # NoErr
                 THEN [policy |-> NoPolicy, fields |-> "emptySelector", deletionTimestamp |-> FALSE]
                 ELSE dOld.obj
        err == ValidateResourcePlacement(oldRP)
    IN  IF err # NoErr
        THEN OldInvalid(rp, err, c2)
        ELSE UpdateChecks(oldRP, rp, c2)

\* lines 68-89: the Update branch
HandleUpdate(r, rp, c) ==
    LET dOld == Decode(r.oldObject)
        c1 == Append(c, "DecodeRaw")
        c2 == Append(c1, "ValidateOld")
    IN  IF dOld.err # NoErr
        THEN Out(Errored(StatusBadRequest, dOld.err), c1)
        ELSE LET err == ValidateResourcePlacement(dOld.obj)
             IN  IF err # NoErr
                 THEN OldInvalid(rp, err, c2)
                 ELSE UpdateChecks(dOld.obj, rp, c2)

\* mutant: only an Update is validated, a Create that decodes is allowed
Handle_CreateNotValidated(r) ==
    IF r.operation = Create \/ r.operation = Update
    THEN LET d == Decode(r.object)
             c == <<"Decode">>
         IN  IF d.err # NoErr
             THEN Out(Errored(StatusBadRequest, d.err), c)
             ELSE IF r.operation = Update
             THEN HandleUpdate(r, d.obj, c)
             ELSE Out(Allowed(<<"any user is allowed to modify v1beta1 RP">>), c)
    ELSE Out(Allowed(<<"any user is allowed to modify v1beta1 RP">>), <<>>)

\* mutant: the objects are decoded and checked whatever the operation
Handle_EveryOperationDecoded(r) ==
    LET d == Decode(r.object)
        c == <<"Decode">>
    IN  IF d.err # NoErr
        THEN Out(Errored(StatusBadRequest, d.err), c)
        ELSE IF r.operation = Update
        THEN HandleUpdate(r, d.obj, c)
        ELSE ValidateNew(d.obj, c)

\* lines 60-97
Handle(r) ==
    IF r.operation = Create \/ r.operation = Update
    THEN LET d == Decode(r.object)
             c == <<"Decode">>
         IN  IF d.err # NoErr
             THEN Out(Errored(StatusBadRequest, d.err), c)
             ELSE IF r.operation = Update
             THEN HandleUpdate(r, d.obj, c)
             ELSE ValidateNew(d.obj, c)
    ELSE Out(Allowed(<<"any user is allowed to modify v1beta1 RP">>), <<>>)

----------------------------------------------------------------------------
(* The klog calls of resourcePlacementValidator.Handle *)

\* a log entry: the message, the verbosity it is written at (0: always)
\* and its key/value pairs
Entry(msg, level, kv) == [msg |-> msg, level |-> level, kv |-> kv]

\* rp.Name: the name of the decoded object, empty while rp is the zero value
NameOfRP(r) ==
    IF (r.operation = Create \/ r.operation = Update) /\ Decode(r.object).err = NoErr
    THEN r.name ELSE ""

\* line 63
LogHandling(r) ==
    Entry("handling RP", 2, [operation |-> r.operation, namespacedName |-> r.name])

\* line 65
LogDecodeFailed(r) ==
    Entry("failed to decode v1beta1 RP object for create/update operation", 0,
          [err |-> Decode(r.object).err, userName |-> r.userInfo.username,
           groups |-> r.userInfo.groups])

\* line 91
LogInvalid(r) ==
    Entry("v1beta1 cluster resource placement has invalid fields, request is denied", 2,
          [operation |-> r.operation, namespacedName |-> NameOfRP(r)])

\* line 95
LogAllowed(r) ==
    Entry("user is allowed to modify v1beta1 cluster resource placement", 2,
          [operation |-> r.operation, user |-> r.userInfo.username,
           group |-> r.userInfo.groups, namespacedName |-> NameOfRP(r)])

\* lines 63, 65, 91, 95: the entries written on the path Handle takes for r
Klog(r) ==
    LET out == Handle(r)
        handling == r.operation = Create \/ r.operation = Update
    IN  (IF handling THEN <<LogHandling(r)>> ELSE <<>>)
        \o (IF handling /\ Decode(r.object).err # NoErr
            THEN <<LogDecodeFailed(r)>> ELSE <<>>)
        \o (IF out.calls # <<>> /\ out.calls[Len(out.calls)] = "ValidateNew"
               /\ ~out.resp.allowed
            THEN <<LogInvalid(r)>> ELSE <<>>)
        \o (IF out.resp = Allowed(<<"any user is allowed to modify v1beta1 RP">>)
            THEN <<LogAllowed(r)>> ELSE <<>>)

----------------------------------------------------------------------------
(* The hosting control plane: one stored object, one request at a time *)

Request(op, raw, rawOld, user) ==
    [operation |-> op, name |-> ObjName, object |-> raw, oldObject |-> rawOld,
     userInfo |-> user]

\* the object stored once an admitted Create or Update is persisted
Persisted(r) == r.object

\* start-up has not run: request handling is specified on its own
NotBooted ==
    /\ env = NoEnv
    /\ config = NoConfig
    /\ startErr = NoErr
    /\ certCalls = <<>>
    /\ hooks = NoHooks
    /\ routes = {}

Init ==
    /\ store \in Objects \cup {NoObj}
    /\ createdType = IF store = NoObj THEN "" ELSE PlacementTypeOf(store.policy)
    /\ createdValid = IF store = NoObj THEN FALSE ELSE ValidateResourcePlacement(store) = NoErr
    /\ req = NoReq
    /\ resp = NoResp
    /\ calls = <<>>
    /\ logs = <<>>
    /\ NotBooted
    /\ tasks = <<>>
    /\ finalizers = 0

\* a Create request for an object that is not stored yet
CreateRequest ==
    /\ req = NoReq
    /\ store = NoObj
    /\ UNCHANGED <<bootVars, concVars, metaVars>>
    /\ \E raw \in RawObjects, user \in Users :
         LET r == Request(Create, raw, NoObj, user)
             out == Handle(r)
         IN  /\ req' = r
             /\ resp' = out.resp
             /\ calls' = out.calls
             /\ logs' = Klog(r)
             /\ IF out.resp.allowed
                THEN /\ store' = Persisted(r)
                     /\ createdType' = PlacementTypeOf(r.object.policy)
                     /\ createdValid' = (ValidateResourcePlacement(r.object) = NoErr)
                ELSE UNCHANGED <<store, createdType, createdValid>>

\* an Update request for the stored object
UpdateRequest ==
    /\ req = NoReq
    /\ store # NoObj
    /\ UNCHANGED <<bootVars, concVars, metaVars>>
    /\ \E raw \in RawObjects, rawOld \in {store, Malformed}, user \in Users :
         LET r == Request(Update, raw, rawOld, user)
             out == Handle(r)
         IN  /\ req' = r
             /\ resp' = out.resp
             /\ calls' = out.calls
             /\ logs' = Klog(r)
             /\ store' = IF out.resp.allowed THEN Persisted(r) ELSE store
             /\ UNCHANGED <<createdType, createdValid>>

\* a Delete request for the stored object: it is removed, or only marked
\* for deletion while finalizers hold it
DeleteRequest ==
    /\ req = NoReq
    /\ store # NoObj
    /\ UNCHANGED <<bootVars, concVars, metaVars>>
    /\ \E raw \in {NoObj, Malformed}, rawOld \in {store, Malformed}, user \in Users :
         LET r == Request(Delete, raw, rawOld, user)
             out == Handle(r)
         IN  /\ req' = r
             /\ resp' = out.resp
             /\ calls' = out.calls
             /\ logs' = Klog(r)
             /\ IF out.resp.allowed
                THEN \/ /\ store' = NoObj
                        /\ createdType' = ""
                        /\ createdValid' = FALSE
                     \/ /\ store' = [store EXCEPT !.deletionTimestamp = TRUE]
                        /\ UNCHANGED <<createdType, createdValid>>
                ELSE UNCHANGED <<store, createdType, createdValid>>

\* the response goes back to the caller; request and decision are discarded
Return ==
    /\ req # NoReq
    /\ req' = NoReq
    /\ resp' = NoResp
    /\ calls' = <<>>
    /\ logs' = <<>>
    /\ UNCHANGED <<store, createdType, createdValid>>
    /\ UNCHANGED <<bootVars, concVars, metaVars>>

Next == CreateRequest \/ UpdateRequest \/ DeleteRequest \/ Return

Spec == Init /\ [][Next]_vars

\* the store starts empty: every object it holds came in through Handle
FreshInit ==
    /\ store = NoObj
    /\ Init

SpecFresh == FreshInit /\ [][Next]_vars

----------------------------------------------------------------------------
(* Removal of a stored object: Delete, then the finalizers are cleared *)

\* the object is gone from the store
Removed ==
    /\ store' = NoObj
    /\ createdType' = ""
    /\ createdValid' = FALSE

\* a stored object, marked for deletion only while finalizers hold it
RemovalInit ==
    /\ store \in Objects
    /\ finalizers \in 0..MaxFinalizers
    /\ store.deletionTimestamp => finalizers > 0
    /\ createdType = PlacementTypeOf(store.policy)
    /\ createdValid = (ValidateResourcePlacement(store) = NoErr)
    /\ req = NoReq
    /\ resp = NoResp
    /\ calls = <<>>
    /\ logs = <<>>
    /\ NotBooted
    /\ tasks = <<>>

\* a Delete request for the stored object: the object is removed when no
\* finalizer holds it and is marked for deletion otherwise
DeleteObject ==
    /\ req = NoReq
    /\ store # NoObj
    /\ ~store.deletionTimestamp
    /\ UNCHANGED <<bootVars, concVars, metaVars>>
    /\ \E user \in Users :
         LET r == Request(Delete, NoObj, store, user)
             out == Handle(r)
         IN  /\ req' = r
             /\ resp' = out.resp
             /\ calls' = out.calls
             /\ logs' = Klog(r)
             /\ IF ~out.resp.allowed
                THEN UNCHANGED <<store, createdType, createdValid>>
                ELSE IF finalizers = 0
                THEN Removed
                ELSE /\ store' = [store EXCEPT !.deletionTimestamp = TRUE]
                     /\ UNCHANGED <<createdType, createdValid>>

\* a controller's Update that removes one finalizer of the object marked
\* for deletion and changes nothing else; the object is removed with its
\* last finalizer
RemoveFinalizer ==
    /\ req = NoReq
    /\ store # NoObj
    /\ store.deletionTimestamp
    /\ finalizers > 0
    /\ UNCHANGED <<bootVars, concVars>>
    /\ LET r == Request(Update, store, store, Admin)
           out == Handle(r)
       IN    /\ req' = r
             /\ resp' = out.resp
             /\ calls' = out.calls
             /\ logs' = Klog(r)
             /\ IF ~out.resp.allowed
                THEN UNCHANGED <<store, createdType, createdValid, finalizers>>
                ELSE /\ finalizers' = finalizers - 1
                     /\ IF finalizers = 1
                        THEN Removed
                        ELSE /\ store' = Persisted(r)
                             /\ UNCHANGED <<createdType, createdValid>>

\* any other Update of the stored object: it keeps the deletion marker as
\* it is and the finalizers as they are
UpdateSpec ==
    /\ req = NoReq
    /\ store # NoObj
    /\ UNCHANGED <<bootVars, concVars, metaVars>>
    /\ \E raw \in {o \in Objects : o.deletionTimestamp = store.deletionTimestamp} :
         LET r == Request(Update, raw, store, Alice)
             out == Handle(r)
         IN  /\ req' = r
             /\ resp' = out.resp
             /\ calls' = out.calls
             /\ logs' = Klog(r)
             /\ store' = IF out.resp.allowed THEN Persisted(r) ELSE store
             /\ UNCHANGED <<createdType, createdValid>>

RemovalNext == DeleteObject \/ RemoveFinalizer \/ UpdateSpec \/ Return

\* the Delete and the finalizer removals are retried until they are served,
\* and every request is answered
RemovalFairness ==
    /\ SF_vars(DeleteObject)
    /\ SF_vars(RemoveFinalizer)
    /\ WF_vars(Return)

SpecRemoval == RemovalInit /\ [][RemovalNext]_vars /\ RemovalFairness

----------------------------------------------------------------------------
(* CertificateProvider: NewWebhookConfig and its two certificate strategies *)

\* ca.crt in the certificate directory: absent, or its contents
File(content) == [present |-> TRUE, content |-> content]
CAFiles == {NoFile, File(""), File("test-ca-content"), File("-----BEGIN CERTIFICATE-----")}

\* options.WebhookClientConnectionType, a pointer
ConnectionTypes == {"nil", "service", "url"}

\* the parameters of NewWebhookConfig and the certificate directory it finds
Envs ==
    [clientConnectionType : ConnectionTypes,
     enableGuardRail : BOOLEAN,
     denyModifyMemberClusterLabels : BOOLEAN,
     enableWorkload : BOOLEAN,
     useCertManager : BOOLEAN,
     caFile : CAFiles,
     certDirWritable : BOOLEAN]

CAMissingError == "no such file or directory"
CAEmptyError == "CA certificate file is empty"
LoadCAFailed == "failed to load cert-manager CA certificate"
GenCertFailed == "failed to generate self-signed certificate"

\* the outcome of a strategy: the strategy, its error and the CA it yields
CertResult(fn, err, caPEM) == [fn |-> fn, err |-> err, caPEM |-> caPEM]

\* mutant: an empty ca.crt is returned as it is
loadCertManagerCA_EmptyAccepted(caFile) ==
    IF caFile = NoFile
    THEN CertResult("loadCertManagerCA", <<"failed to read CA certificate", CAMissingError>>, "")
    ELSE CertResult("loadCertManagerCA", NoErr, caFile.content)

\* Config.loadCertManagerCA: read ca.crt from the certificate directory
loadCertManagerCA(caFile) ==
    IF caFile = NoFile
    THEN CertResult("loadCertManagerCA", <<"failed to read CA certificate", CAMissingError>>, "")
    ELSE IF caFile.content = ""
    THEN CertResult("loadCertManagerCA", <<CAEmptyError>>, "")
    ELSE CertResult("loadCertManagerCA", NoErr, caFile.content)

\* Config.genCertificate: self-sign and write tls.crt and tls.key
genCertificate(certDirWritable) ==
    IF certDirWritable
    THEN CertResult("genCertificate", NoErr, "self-signed CA")
    ELSE CertResult("genCertificate", <<"failed to write certificate files">>, "")

\* the Config of a start-up whose certificate strategy yielded caPEM
ConfigOf(e, caPEM) ==
    [serviceNamespace |-> "test-namespace",
     serviceName |-> "test-webhook",
     servicePort |-> 8080,
     serviceURL |-> "test-url",
     clientConnectionType |-> e.clientConnectionType,
     enableGuardRail |-> e.enableGuardRail,
     denyModifyMemberClusterLabels |-> e.denyModifyMemberClusterLabels,
     enableWorkload |-> e.enableWorkload,
     useCertManager |-> e.useCertManager,
     caPEM |-> caPEM]

\* what NewWebhookConfig returns: the Config or the error, and the strategies run
Built(cfg, err, ran) == [config |-> cfg, err |-> err, ran |-> ran]

\* mutant: when the cert-manager CA cannot be loaded, a self-signed
\* certificate is generated instead
NewWebhookConfig_FallsBack(e) ==
    LET ca == loadCertManagerCA(e.caFile)
        gen == genCertificate(e.certDirWritable)
    IN  IF e.useCertManager /\ ca.err = NoErr
        THEN Built(ConfigOf(e, ca.caPEM), NoErr, <<ca>>)
        ELSE LET ran == IF e.useCertManager THEN <<ca, gen>> ELSE <<gen>>
             IN  IF gen.err # NoErr
                 THEN Built(NoConfig, <<GenCertFailed>> \o gen.err, ran)
                 ELSE Built(ConfigOf(e, gen.caPEM), NoErr, ran)

\* NewWebhookConfig: one certificate strategy, selected by useCertManager
NewWebhookConfig(e) ==
    IF e.useCertManager
    THEN LET ca == loadCertManagerCA(e.caFile)
         IN  IF ca.err # NoErr
             THEN Built(NoConfig, <<LoadCAFailed>> \o ca.err, <<ca>>)
             ELSE Built(ConfigOf(e, ca.caPEM), NoErr, <<ca>>)
    ELSE LET gen == genCertificate(e.certDirWritable)
         IN  IF gen.err # NoErr
             THEN Built(NoConfig, <<GenCertFailed>> \o gen.err, <<gen>>)
             ELSE Built(ConfigOf(e, gen.caPEM), NoErr, <<gen>>)

----------------------------------------------------------------------------
(* WebhookConfigBuilder *)

\* the client configuration of a descriptor: the service or the URL
ClientConfig(cfg, path) ==
    IF cfg.clientConnectionType = "url"
    THEN [url |-> <<cfg.serviceURL, path>>, caBundle |-> cfg.caPEM]
    ELSE [service |-> [namespace |-> cfg.serviceNamespace, name |-> cfg.serviceName,
                       port |-> cfg.servicePort, path |-> path],
          caBundle |-> cfg.caPEM]

\* a webhook descriptor for one resource kind
Descriptor(cfg, kind) ==
    [name |-> kind, clientConfig |-> ClientConfig(cfg, <<"validate", kind>>)]

Descriptors(cfg, kinds) == [i \in 1..Len(kinds) |-> Descriptor(cfg, kinds[i])]

\* Config.buildFleetMutatingWebhooks
buildFleetMutatingWebhooks(cfg) == Descriptors(cfg, <<"pod-mutating">>)

\* the validators built whatever the flags, and the two generic ones that
\* the workload-specific validators supersede
PlacementValidators ==
    <<"clusterresourceplacement", "resourceplacement", "membercluster",
      "clusterresourceoverride", "resourceoverride", "clusterresourceplacementeviction">>
GenericWorkloadValidators == <<"pod", "replicaset">>

\* mutant: the generic validators are built when enableWorkload is set
buildFleetValidatingWebhooks_FlagInverted(cfg) ==
    Descriptors(cfg, PlacementValidators
                     \o (IF cfg.enableWorkload THEN GenericWorkloadValidators ELSE <<>>))

\* Config.buildFleetValidatingWebhooks
buildFleetValidatingWebhooks(cfg) ==
    Descriptors(cfg, PlacementValidators
                     \o (IF cfg.enableWorkload THEN <<>> ELSE GenericWorkloadValidators))

\* the guard rail validators
GuardRailValidators ==
    <<"guardrail-customresourcedefinition", "guardrail-membercluster",
      "guardrail-fleet-namespaced-resources", "guardrail-kube-namespaced-resources",
      "guardrail-namespace", "guardrail-cluster-scoped-resources">>

\* a guard rail descriptor; the member cluster one carries the label rule
GuardRailDescriptor(cfg, kind) ==
    [name |-> kind, clientConfig |-> ClientConfig(cfg, <<"validate", kind>>),
     denyModifyLabels |-> kind = "guardrail-membercluster" /\ cfg.denyModifyMemberClusterLabels]

\* mutant: without denyModifyMemberClusterLabels the member cluster
\* descriptor is left out
buildFleetGuardRailValidatingWebhooks_LabelGated(cfg) ==
    LET kinds == IF cfg.denyModifyMemberClusterLabels THEN GuardRailValidators
                 ELSE SelectSeq(GuardRailValidators, LAMBDA k : k # "guardrail-membercluster")
    IN  [i \in 1..Len(kinds) |-> GuardRailDescriptor(cfg, kinds[i])]

\* Config.buildFleetGuardRailValidatingWebhooks
buildFleetGuardRailValidatingWebhooks(cfg) ==
    [i \in 1..Len(GuardRailValidators) |-> GuardRailDescriptor(cfg, GuardRailValidators[i])]

----------------------------------------------------------------------------
(* Registration: the validation path of each handler *)

\* placementv1beta1.GroupVersion
GroupVersionGroup == "placement.kubernetes-fleet.io"
GroupVersionVersion == "v1beta1"

\* fmt.Sprintf(utils.ValidationPathFmt, group, version, kind)
ValidationPathFmt(group, version, kind) == <<"validate", group, version, kind>>

\* resourceplacement.ValidationPath
RPValidationPath ==
    ValidationPathFmt(GroupVersionGroup, GroupVersionVersion, "clusterresourceplacement")

\* clusterresourceplacement.ValidationPath
CRPValidationPath ==
    ValidationPathFmt(GroupVersionGroup, GroupVersionVersion, "clusterresourceplacement")

\* hookServer.Register(path, handler)
Register(path, handler) == [path |-> path, handler |-> handler]

----------------------------------------------------------------------------
(* Start-up: the Config, the descriptor lists, the registrations *)

\* request handling has not begun
NoRequests ==
    /\ store = NoObj
    /\ createdType = ""
    /\ createdValid = FALSE
    /\ req = NoReq
    /\ resp = NoResp
    /\ calls = <<>>
    /\ logs = <<>>
    /\ tasks = <<>>
    /\ finalizers = 0

BootInit ==
    /\ env \in Envs
    /\ config = NoConfig
    /\ startErr = NoErr
    /\ certCalls = <<>>
    /\ hooks = NoHooks
    /\ routes = {}
    /\ NoRequests

\* NewWebhookConfig runs once, at process start
ProvisionConfig ==
    /\ certCalls = <<>>
    /\ LET b == NewWebhookConfig(env)
       IN  /\ config' = b.config
           /\ startErr' = b.err
           /\ certCalls' = b.ran
    /\ UNCHANGED <<env, hooks, routes, reqVars, concVars, metaVars>>

BuildMutating ==
    /\ config # NoConfig
    /\ hooks.mutating = <<>>
    /\ hooks' = [hooks EXCEPT !.mutating = buildFleetMutatingWebhooks(config)]
    /\ UNCHANGED <<env, config, startErr, certCalls, routes, reqVars, concVars, metaVars>>

BuildValidating ==
    /\ config # NoConfig
    /\ hooks.validating = <<>>
    /\ hooks' = [hooks EXCEPT !.validating = buildFleetValidatingWebhooks(config)]
    /\ UNCHANGED <<env, config, startErr, certCalls, routes, reqVars, concVars, metaVars>>

\* the guard rail descriptors are built when enableGuardRail is set
BuildGuardRail ==
    /\ config # NoConfig
    /\ config.enableGuardRail
    /\ hooks.guardRail = <<>>
    /\ hooks' = [hooks EXCEPT !.guardRail = buildFleetGuardRailValidatingWebhooks(config)]
    /\ UNCHANGED <<env, config, startErr, certCalls, routes, reqVars, concVars, metaVars>>

\* resourceplacement.Add
AddResourcePlacement ==
    /\ config # NoConfig
    /\ Register(RPValidationPath, "resourcePlacementValidator") \notin routes
    /\ routes' = routes \cup {Register(RPValidationPath, "resourcePlacementValidator")}
    /\ UNCHANGED <<env, config, startErr, certCalls, hooks, reqVars, concVars, metaVars>>

\* clusterresourceplacement.Add
AddClusterResourcePlacement ==
    /\ config # NoConfig
    /\ Register(CRPValidationPath, "clusterResourcePlacementValidator") \notin routes
    /\ routes' = routes \cup {Register(CRPValidationPath, "clusterResourcePlacementValidator")}
    /\ UNCHANGED <<env, config, startErr, certCalls, hooks, reqVars, concVars, metaVars>>

BootNext ==
    \/ ProvisionConfig
    \/ BuildMutating
    \/ BuildValidating
    \/ BuildGuardRail
    \/ AddResourcePlacement
    \/ AddClusterResourcePlacement

SpecStartup == BootInit /\ [][BootNext]_vars

----------------------------------------------------------------------------
(* Concurrent calls of resourcePlacementValidator.Handle *)

Handlers == 1..NumHandlers

\* the objects of the concurrent requests
ValidRP == [policy |-> [placementType |-> "PickAll", tolerations |-> <<>>],
            fields |-> "ok", deletionTimestamp |-> FALSE]
ToleratingRP == [ValidRP EXCEPT !.policy.tolerations = <<[key |-> "k1", value |-> "v1"]>>]
PickNRP == [ValidRP EXCEPT !.policy.placementType = "PickN"]
InvalidRP == [ValidRP EXCEPT !.fields = "emptySelector"]
DeletingInvalidRP == [InvalidRP EXCEPT !.deletionTimestamp = TRUE]

\* the requests that arrive concurrently: one for every return of Handle,
\* and one triple sent by two users
ConcurrentRequests ==
    {Request(Create, ValidRP, NoObj, Alice),
     Request(Create, ValidRP, NoObj, Admin),
     Request(Create, InvalidRP, NoObj, Alice),
     Request(Create, Malformed, NoObj, Alice),
     Request(Update, ValidRP, Malformed, Alice),
     Request(Update, ValidRP, InvalidRP, Alice),
     Request(Update, DeletingInvalidRP, InvalidRP, Admin),
     Request(Update, PickNRP, ValidRP, Alice),
     Request(Update, ValidRP, ToleratingRP, Alice),
     Request(Update, ToleratingRP, ValidRP, Admin),
     Request(Delete, NoObj, ValidRP, Alice)}

\* how the previous call on a handler ended, as far as a later call could care
Ending(r) ==
    IF r.allowed THEN "none"
    ELSE IF r.code = StatusBadRequest THEN "error"
    ELSE "deny"

\* one call of Handle: its position, its request, its local variables rp
\* and oldRP, its response
IdleTask(after) ==
    [pc |-> "idle", req |-> NoReq, rp |-> NoObj, oldRP |-> NoObj, resp |-> NoResp,
     after |-> after]

\* mutant: rp is a field of the validator that every call writes and reads
LocalRP_Shared(h) ==
    LET decoded == {k \in Handlers : tasks[k].rp # NoObj}
    IN  tasks[CHOOSE k \in decoded : \A j \in decoded : k >= j].rp

\* line 61: var rp, local to the call
LocalRP(h) == tasks[h].rp

\* line 69: var oldRP, local to the call
LocalOldRP(h) == tasks[h].oldRP

Finish(h, r) == [tasks EXCEPT ![h].pc = "done", ![h].resp = r]

\* the webhook server starts a call of Handle for an admission request
Receive(h) ==
    /\ tasks[h].pc = "idle"
    /\ \E r \in ConcurrentRequests :
         tasks' = [tasks EXCEPT ![h].pc = "decode", ![h].req = r]
    /\ UNCHANGED <<reqVars, bootVars, metaVars>>

\* lines 62-67, and 95-96 for an operation that is neither Create nor Update
DecodeNew(h) ==
    /\ tasks[h].pc = "decode"
    /\ LET r == tasks[h].req
           d == Decode(r.object)
       IN  tasks' =
             IF ~(r.operation = Create \/ r.operation = Update)
             THEN Finish(h, Allowed(<<"any user is allowed to modify v1beta1 RP">>))
             ELSE IF d.err # NoErr
             THEN Finish(h, Errored(StatusBadRequest, d.err))
             ELSE [tasks EXCEPT ![h].rp = d.obj,
                                ![h].pc = IF r.operation = Update THEN "decodeOld" ELSE "validate"]
    /\ UNCHANGED <<reqVars, bootVars, metaVars>>

\* lines 68-80
DecodeOld(h) ==
    /\ tasks[h].pc = "decodeOld"
    /\ LET dOld == Decode(tasks[h].req.oldObject)
       IN  tasks' =
             IF dOld.err # NoErr
             THEN Finish(h, Errored(StatusBadRequest, dOld.err))
             ELSE IF ValidateResourcePlacement(dOld.obj) # NoErr
             THEN Finish(h, OldInvalid(LocalRP(h), ValidateResourcePlacement(dOld.obj), <<>>).resp)
             ELSE [tasks EXCEPT ![h].oldRP = dOld.obj, ![h].pc = "validate"]
    /\ UNCHANGED <<reqVars, bootVars, metaVars>>

\* lines 81-96
Validate(h) ==
    /\ tasks[h].pc = "validate"
    /\ tasks' =
         IF tasks[h].req.operation = Update
         THEN Finish(h, UpdateChecks(LocalOldRP(h), LocalRP(h), <<>>).resp)
         ELSE Finish(h, ValidateNew(LocalRP(h), <<>>).resp)
    /\ UNCHANGED <<reqVars, bootVars, metaVars>>

\* the response is sent and the call is over
Respond(h) ==
    /\ tasks[h].pc = "done"
    /\ tasks' = [tasks EXCEPT ![h] = IdleTask(Ending(tasks[h].resp))]
    /\ UNCHANGED <<reqVars, bootVars, metaVars>>

ConcInit ==
    /\ tasks = [h \in Handlers |-> IdleTask("none")]
    /\ store = NoObj
    /\ createdType = ""
    /\ createdValid = FALSE
    /\ req = NoReq
    /\ resp = NoResp
    /\ calls = <<>>
    /\ logs = <<>>
    /\ NotBooted
    /\ finalizers = 0

ConcNext ==
    \E h \in Handlers :
        \/ Receive(h)
        \/ DecodeNew(h)
        \/ DecodeOld(h)
        \/ Validate(h)
        \/ Respond(h)

SpecConcurrent == ConcInit /\ [][ConcNext]_vars

----------------------------------------------------------------------------
(* Vocabulary of the properties *)

Handled == req # NoReq
IsCreate == Handled /\ req.operation = Create
IsUpdate == Handled /\ req.operation = Update
NewDecodes == Handled /\ req.object \in Objects
OldDecodes == Handled /\ req.oldObject \in Objects
\* an Update whose two objects decode
DecodedUpdate == IsUpdate /\ NewDecodes /\ OldDecodes

IsValid(obj) == ValidateResourcePlacement(obj) = NoErr
TolSet(obj) == Range(TolerationsOf(obj))
TypeDiffers(old, new) == PlacementTypeOf(old.policy) # PlacementTypeOf(new.policy)
\* some old toleration is missing from, or altered in, the new object
TolerationLost(old, new) == ~ (TolSet(old) \subseteq TolSet(new))
Mentions(reason, text) == \E i \in 1..Len(reason) : reason[i] = text

IsAllow == resp.allowed /\ resp.code = StatusOK
IsDeny == ~resp.allowed /\ resp.code = StatusForbidden
IsError == ~resp.allowed /\ resp.code = StatusBadRequest

TypeImmutableReason == <<"placement type is immutable">>
TolerationReason ==
    <<"tolerations have been updated/deleted, only additions to tolerations are allowed">>
PolicyChecks == {"ValidateOld", "IsPlacementPolicyTypeUpdated",
                 "IsTolerationsUpdatedOrDeleted", "ValidateNew"}

----------------------------------------------------------------------------
(* C1 *)

\* C1: an Update whose old object fails static validation and whose new
\* object carries a deletion marker is allowed, whatever else differs
\* between the two objects.
C1_OldInvalidDeletingAllowed ==
    (DecodedUpdate /\ ~IsValid(req.oldObject) /\ req.object.deletionTimestamp)
        => (IsAllow /\ resp.reason = <<allowUpdateOldInvalidRPFmt>>)

\* the exception admits an update that changes the placement type, drops a
\* toleration and leaves the new object invalid
C1_Witness ==
    /\ DecodedUpdate
    /\ ~IsValid(req.oldObject)
    /\ req.object.deletionTimestamp
    /\ TypeDiffers(req.oldObject, req.object)
    /\ TolerationLost(req.oldObject, req.object)
    /\ ~IsValid(req.object)
    /\ IsAllow
    /\ store = req.object

----------------------------------------------------------------------------
(* C2 *)

\* C2: an Update whose old object fails static validation and whose new
\* object has no deletion marker is denied, even when the new object is valid.
C2_OldInvalidNotDeletingDenied ==
    (DecodedUpdate /\ ~IsValid(req.oldObject) /\ ~req.object.deletionTimestamp)
        => /\ IsDeny
           /\ resp.reason = <<denyUpdateOldInvalidRPFmt, ValidateResourcePlacement(req.oldObject)>>
           /\ store = req.oldObject

\* a repairing update (new object valid, nothing else changed) is denied
C2_Witness ==
    /\ DecodedUpdate
    /\ ~IsValid(req.oldObject)
    /\ ~req.object.deletionTimestamp
    /\ req.object = [req.oldObject EXCEPT !.fields = "ok"]
    /\ IsDeny
    /\ store = req.oldObject

----------------------------------------------------------------------------
(* C3 *)

\* both objects have a policy, and they are equal but for its placement type
DiffersOnlyInType(old, new) ==
    /\ old.policy # NoPolicy
    /\ new.policy # NoPolicy
    /\ TypeDiffers(old, new)
    /\ TolerationsOf(old) = TolerationsOf(new)
    /\ old.fields = new.fields
    /\ old.deletionTimestamp = new.deletionTimestamp

\* C3 as stated: every Update whose old and new objects differ only in
\* placementType is denied with "placement type is immutable".
C3_Original ==
    (DecodedUpdate /\ DiffersOnlyInType(req.oldObject, req.object))
        => (IsDeny /\ resp.reason = TypeImmutableReason)

\* C3 as amended: every Update whose old object passes static validation and
\* whose old and new policies differ in placementType (only in it, or in more)
\* is denied with "placement type is immutable", and the stored object stays.
C3_ValidOldTypeChangeDenied ==
    (/\ DecodedUpdate
     /\ IsValid(req.oldObject)
     /\ req.oldObject.policy # NoPolicy
     /\ req.object.policy # NoPolicy
     /\ TypeDiffers(req.oldObject, req.object))
        => /\ IsDeny
           /\ resp.reason = TypeImmutableReason
           /\ store = req.oldObject

\* a valid object whose update changes nothing but the placement type
C3_Witness ==
    /\ DecodedUpdate
    /\ IsValid(req.oldObject)
    /\ DiffersOnlyInType(req.oldObject, req.object)
    /\ PlacementTypeOf(req.oldObject.policy) = "PickAll"
    /\ PlacementTypeOf(req.object.policy) = "PickN"
    /\ IsDeny
    /\ resp.reason = TypeImmutableReason

----------------------------------------------------------------------------
(* C4 *)

\* with all other steps passing, nothing but the toleration check decides
OtherStepsPass(old, new) ==
    IsValid(old) /\ ~TypeDiffers(old, new) /\ IsValid(new)

\* C4 as stated: an Update that loses or alters an old toleration is denied;
\* an Update that only adds tolerations is not blocked by the toleration check.
C4_Original ==
    DecodedUpdate =>
        /\ TolerationLost(req.oldObject, req.object) => IsDeny
        /\ ~TolerationLost(req.oldObject, req.object) =>
              /\ resp.reason # TolerationReason
              /\ OtherStepsPass(req.oldObject, req.object) => IsAllow

\* C4 as amended: an Update that loses or alters an old toleration is denied
\* unless the old object fails static validation and the new object carries
\* a deletion marker (then it is allowed); an Update that only adds
\* tolerations, in any order, is not blocked by the toleration check.
C4_TolerationsOnlyGrow ==
    DecodedUpdate =>
        /\ TolerationLost(req.oldObject, req.object) =>
              IF ~IsValid(req.oldObject) /\ req.object.deletionTimestamp
              THEN IsAllow
              ELSE IsDeny /\ store = req.oldObject
        /\ ~TolerationLost(req.oldObject, req.object) =>
              /\ resp.reason # TolerationReason
              /\ OtherStepsPass(req.oldObject, req.object) => IsAllow

\* a toleration is added in front of the old one, and the update is allowed
C4_Witness ==
    /\ DecodedUpdate
    /\ OtherStepsPass(req.oldObject, req.object)
    /\ Len(TolerationsOf(req.oldObject)) = 1
    /\ Len(TolerationsOf(req.object)) = 2
    /\ TolerationsOf(req.object)[2] = TolerationsOf(req.oldObject)[1]
    /\ TolerationsOf(req.object)[1] # TolerationsOf(req.oldObject)[1]
    /\ IsAllow
    /\ store = req.object

----------------------------------------------------------------------------
(* C5 *)

\* C5 as stated: after every admitted Update the stored placementType is
\* the one the object had when it was created (compared where the object
\* had a policy when created and has one now).
C5_Original ==
    (store # NoObj /\ store.policy # NoPolicy /\ createdType # "")
        => PlacementTypeOf(store.policy) = createdType

\* C5 as amended: for an object that passed static validation when it was
\* created (every object admitted by a Create does), the stored
\* placementType after every admitted Update is the one it was created with.
C5_TypeKeptSinceCreation ==
    (store # NoObj /\ createdValid) => PlacementTypeOf(store.policy) = createdType

\* an admitted Update changed the policy of an object that was valid when
\* created, and its placement type is still the one of its creation
C5_Witness ==
    /\ DecodedUpdate
    /\ IsAllow
    /\ createdValid
    /\ createdType = "PickFixed"
    /\ store = req.object
    /\ store.policy # req.oldObject.policy
    /\ PlacementTypeOf(store.policy) = "PickFixed"

----------------------------------------------------------------------------
(* C6 *)

\* the step handles an Update request and admits it
AdmittedUpdateStep ==
    /\ req = NoReq
    /\ req' # NoReq
    /\ req'.operation = Update
    /\ resp'.allowed

\* C6 as stated: every toleration stored before an admitted Update is still
\* present, unchanged, in the object stored after it.
C6_Original ==
    [][AdmittedUpdateStep => TolSet(store) \subseteq TolSet(store')]_vars

\* C6 as amended: every toleration stored before an admitted Update of an
\* object that passes static validation is still present, unchanged, in the
\* object stored after it, and that object passes static validation too (so
\* the same holds of the next Update).
C6_TolerationsKept ==
    [][(AdmittedUpdateStep /\ IsValid(store)) =>
          (TolSet(store) \subseteq TolSet(store') /\ IsValid(store'))]_vars

\* an admitted Update gave two tolerations to a valid object that had none
C6_Witness ==
    /\ DecodedUpdate
    /\ IsAllow
    /\ IsValid(req.oldObject)
    /\ req.oldObject.policy # NoPolicy
    /\ TolSet(req.oldObject) = {}
    /\ TolSet(store) = Tolerations

----------------------------------------------------------------------------
(* C7 *)

\* the update does nothing but add a deletion marker
OnlyAddsMarker(old, new) == new = [old EXCEPT !.deletionTimestamp = TRUE]

\* C7 as stated: an Update of an object that fails static validation is
\* admitted only if it does nothing but add a deletion marker.
C7_Original ==
    (DecodedUpdate /\ ~IsValid(req.oldObject) /\ resp.allowed)
        => OnlyAddsMarker(req.oldObject, req.object)

\* C7 as amended: an Update of an object that fails static validation is
\* admitted only if the new object carries a deletion marker, whatever else
\* the update changes; without the marker it is rejected and the stored
\* object stays as it was.
C7_InvalidOldOnlyTowardsDeletion ==
    (DecodedUpdate /\ ~IsValid(req.oldObject)) =>
        /\ resp.allowed => (req.object.deletionTimestamp /\ store = req.object)
        /\ ~req.object.deletionTimestamp => (IsDeny /\ store = req.oldObject)

\* an invalid object already marked for deletion: an update that changes
\* its invalid fields is admitted, one that drops the marker is not
C7_Witness ==
    /\ DecodedUpdate
    /\ ~IsValid(req.oldObject)
    /\ req.oldObject.deletionTimestamp
    /\ req.object.deletionTimestamp
    /\ req.object.fields # req.oldObject.fields
    /\ ~IsValid(req.object)
    /\ resp.allowed
    /\ store = req.object

----------------------------------------------------------------------------
(* C8 *)

\* Handle reached the static validation of the new object
ReachedValidateNew == Handled /\ calls # <<>> /\ calls[Len(calls)] = "ValidateNew"

\* C8: when a Create or Update reaches static validation of the new object
\* and that validation fails, the decision is Deny and the reason carries
\* the text of the validation error.
C8_InvalidNewDenied ==
    (ReachedValidateNew /\ ~IsValid(req.object)) =>
        /\ IsDeny
        /\ resp.reason[1] = denyCreateUpdateInvalidRPFmt
        /\ Mentions(resp.reason, ValidateResourcePlacement(req.object))
        /\ store = IF IsUpdate THEN req.oldObject ELSE NoObj

\* an Update that passes the immutability and toleration checks and breaks
\* the rollout strategy is denied with that error
C8_Witness ==
    /\ DecodedUpdate
    /\ IsValid(req.oldObject)
    /\ req.object.fields = "badStrategy"
    /\ calls = <<"Decode", "DecodeRaw", "ValidateOld", "IsPlacementPolicyTypeUpdated",
                 "IsTolerationsUpdatedOrDeleted", "ValidateNew">>
    /\ IsDeny
    /\ resp.reason = <<denyCreateUpdateInvalidRPFmt, "the rollout strategy is invalid">>

----------------------------------------------------------------------------
(* C9 *)

\* C9: a Create whose object decodes is allowed exactly when the object
\* passes static validation; the old object is not decoded and neither the
\* placement type check nor the toleration check is made.
C9_CreateAllowedIffValid ==
    (IsCreate /\ NewDecodes) =>
        /\ IsAllow <=> IsValid(req.object)
        /\ ~IsAllow => IsDeny
        /\ calls = <<"Decode", "ValidateNew">>
        /\ store = IF IsValid(req.object) THEN req.object ELSE NoObj

\* Scenario A: a valid object without tolerations is created
C9_Witness ==
    /\ IsCreate
    /\ NewDecodes
    /\ IsValid(req.object)
    /\ TolerationsOf(req.object) = <<>>
    /\ IsAllow
    /\ store = req.object
    /\ createdValid

----------------------------------------------------------------------------
(* C10 *)

\* the new object (Create, Update) or the old object (Update) does not decode
DecodeFails ==
    \/ (IsCreate \/ IsUpdate) /\ ~NewDecodes
    \/ IsUpdate /\ NewDecodes /\ ~OldDecodes

\* C10: a decode failure yields the malformed-request error (HTTP 400),
\* neither Allow nor a policy Deny; no policy check follows the failed
\* decode and the stored object stays as it was.
C10_DecodeFailureIsError ==
    DecodeFails =>
        /\ IsError
        /\ ~IsAllow /\ ~IsDeny
        /\ Range(calls) \cap PolicyChecks = {}
        /\ calls = IF NewDecodes THEN <<"Decode", "DecodeRaw">> ELSE <<"Decode">>
        /\ IsCreate => store = NoObj
        /\ (IsUpdate /\ OldDecodes) => store = req.oldObject

\* an Update whose new object decodes and whose old object does not
C10_Witness ==
    /\ IsUpdate
    /\ NewDecodes
    /\ req.oldObject = Malformed
    /\ IsError
    /\ calls = <<"Decode", "DecodeRaw">>
    /\ store # NoObj

----------------------------------------------------------------------------
(* C18 *)

\* the steps of an Update in their fixed order: 1 decode new, 2 decode old,
\* 3 old object invalid, 4 placement type, 5 tolerations, 6 validation of new
Steps == 1..6

\* step i, taken on its own, finds the Update at fault
StepFails(i) ==
    CASE i = 1 -> ~NewDecodes
      [] i = 2 -> ~OldDecodes
      [] i = 3 -> DecodedUpdate /\ ~IsValid(req.oldObject)
      [] i = 4 -> DecodedUpdate /\ TypeDiffers(req.oldObject, req.object)
      [] i = 5 -> DecodedUpdate /\ TolerationLost(req.oldObject, req.object)
      [] i = 6 -> NewDecodes /\ ~IsValid(req.object)

\* the response is the outcome of step i
IsOutcomeOf(i) ==
    CASE i = 1 -> IsError /\ calls = <<"Decode">>
      [] i = 2 -> IsError /\ calls = <<"Decode", "DecodeRaw">>
      [] i = 3 -> /\ calls = <<"Decode", "DecodeRaw", "ValidateOld">>
                  /\ IF req.object.deletionTimestamp
                     THEN IsAllow /\ resp.reason = <<allowUpdateOldInvalidRPFmt>>
                     ELSE IsDeny /\ resp.reason[1] = denyUpdateOldInvalidRPFmt
      [] i = 4 -> /\ IsDeny /\ resp.reason = TypeImmutableReason
                  /\ calls[Len(calls)] = "IsPlacementPolicyTypeUpdated"
      [] i = 5 -> /\ IsDeny /\ resp.reason = TolerationReason
                  /\ calls[Len(calls)] = "IsTolerationsUpdatedOrDeleted"
      [] i = 6 -> /\ IsDeny /\ resp.reason[1] = denyCreateUpdateInvalidRPFmt
                  /\ calls[Len(calls)] = "ValidateNew"

\* C18: an Update at fault in several steps gets the outcome of the first
\* of them in the fixed order, and no later step is evaluated; so a changed
\* placement type wins over a lost toleration, and a lost toleration wins
\* over an invalid new object.
C18_FirstFailingStepDecides ==
    IsUpdate =>
        /\ \A i \in Steps :
              (StepFails(i) /\ \A j \in 1..(i - 1) : ~StepFails(j)) => IsOutcomeOf(i)
        /\ (\A i \in Steps : ~StepFails(i)) => IsAllow
        /\ (DecodedUpdate /\ IsValid(req.oldObject)
               /\ TypeDiffers(req.oldObject, req.object)
               /\ TolerationLost(req.oldObject, req.object))
              => resp.reason = TypeImmutableReason
        /\ (DecodedUpdate /\ IsValid(req.oldObject)
               /\ ~TypeDiffers(req.oldObject, req.object)
               /\ TolerationLost(req.oldObject, req.object)
               /\ ~IsValid(req.object))
              => resp.reason = TolerationReason

\* an Update of a valid object at fault in steps 4, 5 and 6 at once
C18_Witness ==
    /\ DecodedUpdate
    /\ IsValid(req.oldObject)
    /\ StepFails(4) /\ StepFails(5) /\ StepFails(6)
    /\ IsDeny
    /\ resp.reason = TypeImmutableReason
    /\ calls = <<"Decode", "DecodeRaw", "ValidateOld", "IsPlacementPolicyTypeUpdated">>

----------------------------------------------------------------------------
(* C19 *)

\* a Create or Update whose objects decode
WellTyped == (IsCreate /\ NewDecodes) \/ DecodedUpdate

\* C19: a well-typed request whose objects lack the optional fields gets a
\* decision (Allow or Deny), never a failure; an absent old policy has no
\* tolerations, so the toleration check passes whatever the new object
\* holds, and two absent policies have the same (empty) placement type.
C19_AbsentFieldsAreEmpty ==
    (WellTyped /\ (req.object.policy = NoPolicy
                     \/ (IsUpdate /\ req.oldObject.policy = NoPolicy))) =>
        /\ IsAllow \/ IsDeny
        /\ (IsUpdate /\ req.oldObject.policy = NoPolicy) => resp.reason # TolerationReason
        /\ (IsUpdate /\ req.oldObject.policy = NoPolicy /\ req.object.policy = NoPolicy)
              => /\ resp.reason # TypeImmutableReason
                 /\ (IsValid(req.oldObject) /\ IsValid(req.object)) => IsAllow

\* a valid object without policy, tolerations or deletion marker is
\* updated to itself and the update is allowed
C19_Witness ==
    /\ DecodedUpdate
    /\ req.oldObject = [policy |-> NoPolicy, fields |-> "ok", deletionTimestamp |-> FALSE]
    /\ req.object = req.oldObject
    /\ IsAllow
    /\ calls = <<"Decode", "DecodeRaw", "ValidateOld", "IsPlacementPolicyTypeUpdated",
                 "IsTolerationsUpdatedOrDeleted", "ValidateNew">>

----------------------------------------------------------------------------
(* C20 *)

\* C20: an Update whose objects decode is allowed exactly when the old
\* object is invalid and the new one carries a deletion marker, or the old
\* object is valid, the placement type is unchanged, every old toleration
\* is kept and the new object is valid; otherwise it is denied.  A deletion
\* marker on the new object bypasses nothing when the old object is valid.
C20_UpdateDecision ==
    DecodedUpdate =>
        /\ IsAllow <=>
              \/ ~IsValid(req.oldObject) /\ req.object.deletionTimestamp
              \/ /\ IsValid(req.oldObject)
                 /\ ~TypeDiffers(req.oldObject, req.object)
                 /\ ~TolerationLost(req.oldObject, req.object)
                 /\ IsValid(req.object)
        /\ ~IsAllow => IsDeny
        /\ store = IF IsAllow THEN req.object ELSE req.oldObject

\* the new object carries a deletion marker, the old object is valid, and
\* the update is denied for its invalid new object
C20_Witness ==
    /\ DecodedUpdate
    /\ IsValid(req.oldObject)
    /\ req.object.deletionTimestamp
    /\ ~TypeDiffers(req.oldObject, req.object)
    /\ ~TolerationLost(req.oldObject, req.object)
    /\ ~IsValid(req.object)
    /\ IsDeny
    /\ store = req.oldObject

----------------------------------------------------------------------------
(* C11 *)

Done(h) == tasks[h].pc = "done"

SameTriple(r1, r2) ==
    /\ r1.operation = r2.operation
    /\ r1.oldObject = r2.oldObject
    /\ r1.object = r2.object

\* C11: whatever the other calls of Handle are doing, and however the
\* previous call on the handler ended, a call answers its request with the
\* decision Handle gives that request alone; calls whose requests have the
\* same operation, old object and new object answer the same.
C11_DecisionOfRequestAlone ==
    /\ \A h \in Handlers :
           Done(h) => tasks[h].resp = Handle(tasks[h].req).resp
    /\ \A h1 \in Handlers : \A h2 \in Handlers :
           (Done(h1) /\ Done(h2) /\ SameTriple(tasks[h1].req, tasks[h2].req)) =>
               tasks[h1].resp = tasks[h2].resp

\* a call allowed its update after the previous call on its handler ended
\* in a decode error, while another call that had decoded a different new
\* object was still running
C11_Witness ==
    \E h \in Handlers : \E k \in Handlers :
        /\ h # k
        /\ Done(h)
        /\ tasks[h].req.operation = Update
        /\ tasks[h].resp.allowed
        /\ tasks[h].after = "error"
        /\ tasks[k].pc \in {"decodeOld", "validate"}
        /\ tasks[k].rp # tasks[h].rp

----------------------------------------------------------------------------
(* C12 *)

\* the entry names the operation, the object and the requester of req
CarriesRequest(e) ==
    /\ "operation" \in DOMAIN e.kv /\ e.kv.operation = req.operation
    /\ "namespacedName" \in DOMAIN e.kv /\ e.kv.namespacedName = req.name
    /\ \/ "user" \in DOMAIN e.kv /\ e.kv.user = req.userInfo.username
       \/ "userName" \in DOMAIN e.kv /\ e.kv.userName = req.userInfo.username

\* the entry states the outcome resp
CarriesOutcome(e) ==
    \/ IsAllow /\ e.msg = "user is allowed to modify v1beta1 cluster resource placement"
    \/ IsDeny /\ e.msg = "v1beta1 cluster resource placement has invalid fields, request is denied"

\* C12: every decision Handle returns, Allow or Deny, comes with a log
\* entry that carries the operation, the object name, the requesting
\* identity and the outcome.
C12_Original ==
    (Handled /\ (IsAllow \/ IsDeny)) =>
        \E i \in 1..Len(logs) : CarriesRequest(logs[i]) /\ CarriesOutcome(logs[i])

----------------------------------------------------------------------------
(* C13 *)

\* C13: the path registered for ResourcePlacement differs from the path
\* registered for ClusterResourcePlacement, so that no path is bound to
\* the handlers of two kinds.
C13_Original ==
    \A r1 \in routes : \A r2 \in routes :
        r1.handler # r2.handler => r1.path # r2.path

----------------------------------------------------------------------------
(* C14 *)

Provisioned == certCalls # <<>>

Ran(fn) == \E i \in 1..Len(certCalls) : certCalls[i].fn = fn

NothingStarted == config = NoConfig /\ hooks = NoHooks /\ routes = {}

\* C14: NewWebhookConfig runs exactly one certificate strategy, the one
\* useCertManager selects, and never the other; a missing CA file fails
\* with "failed to load cert-manager CA certificate" and no self-signing,
\* a failing generation fails with "failed to generate self-signed
\* certificate" and no CA load, and after either failure nothing starts.
C14_OneStrategyNoFallback ==
    Provisioned =>
        /\ Len(certCalls) = 1
        /\ env.useCertManager => Ran("loadCertManagerCA") /\ ~Ran("genCertificate")
        /\ ~env.useCertManager => Ran("genCertificate") /\ ~Ran("loadCertManagerCA")
        /\ (env.useCertManager /\ ~env.caFile.present) =>
               Mentions(startErr, LoadCAFailed) /\ NothingStarted
        /\ (~env.useCertManager /\ ~env.certDirWritable) =>
               Mentions(startErr, GenCertFailed) /\ NothingStarted
        /\ startErr # NoErr <=> config = NoConfig
        /\ startErr # NoErr => NothingStarted

\* cert-manager is selected, no CA file is mounted, generation would have
\* succeeded, and start-up failed on the CA load
C14_Witness ==
    /\ Provisioned
    /\ env.useCertManager
    /\ ~env.caFile.present
    /\ env.certDirWritable
    /\ Mentions(startErr, LoadCAFailed)
    /\ config = NoConfig

----------------------------------------------------------------------------
(* C15 *)

\* C15: loadCertManagerCA has three outcomes: a missing ca.crt gives a
\* not-found error, an empty ca.crt gives a different error that says
\* "empty", and a populated ca.crt gives its contents unchanged and no error.
C15_ThreeOutcomes ==
    (Provisioned /\ env.useCertManager) =>
        LET ca == certCalls[1]
        IN  /\ ca.fn = "loadCertManagerCA"
            /\ ~env.caFile.present =>
                   /\ ca.err # NoErr
                   /\ Mentions(ca.err, CAMissingError)
                   /\ ~Mentions(ca.err, CAEmptyError)
            /\ (env.caFile.present /\ env.caFile.content = "") =>
                   /\ ca.err # NoErr
                   /\ Mentions(ca.err, CAEmptyError)
                   /\ ~Mentions(ca.err, CAMissingError)
            /\ (env.caFile.present /\ env.caFile.content # "") =>
                   /\ ca.err = NoErr
                   /\ ca.caPEM = env.caFile.content
                   /\ config # NoConfig /\ config.caPEM = env.caFile.content

\* an empty ca.crt was loaded and the load failed
C15_Witness ==
    /\ Provisioned
    /\ env.useCertManager
    /\ env.caFile = File("")
    /\ certCalls[1].err # NoErr
    /\ Mentions(startErr, CAEmptyError)

----------------------------------------------------------------------------
(* C16 *)

\* C16: the validating descriptors are exactly 8 when enableWorkload is
\* false and exactly 6 when it is true, whatever the other Config fields.
C16_ValidatingCount ==
    hooks.validating # <<>> =>
        Len(hooks.validating) = IF config.enableWorkload THEN 6 ELSE 8

\* the validating descriptors of a Config with enableWorkload set, served
\* by URL, have been built
C16_Witness ==
    /\ hooks.validating # <<>>
    /\ config.enableWorkload
    /\ config.clientConnectionType = "url"
    /\ Len(hooks.validating) = 6

----------------------------------------------------------------------------
(* C17 *)

\* C17: the guard rail descriptors are exactly 6 when enableGuardRail is true.
C17_GuardRailCount ==
    (hooks.guardRail # <<>> /\ config.enableGuardRail) =>
        Len(hooks.guardRail) = 6

\* the guard rail descriptors of a Config with enableGuardRail set and
\* denyModifyMemberClusterLabels unset have been built
C17_Witness ==
    /\ hooks.guardRail # <<>>
    /\ config.enableGuardRail
    /\ ~config.denyModifyMemberClusterLabels
    /\ Len(hooks.guardRail) = 6

----------------------------------------------------------------------------
(* C21 *)

\* C21: when the store starts empty and objects enter and change only by
\* admitted Create and Update requests, every stored object passes static
\* validation, no Update meets an old object that fails it, and so no
\* admitted Update changes the placement type or loses a toleration.
C21_FreshStoreStaysValid ==
    /\ store # NoObj => IsValid(store)
    /\ store # NoObj => createdValid /\ PlacementTypeOf(store.policy) = createdType
    /\ DecodedUpdate =>
           /\ IsValid(req.oldObject)
           /\ ~Mentions(resp.reason, allowUpdateOldInvalidRPFmt)
           /\ ~Mentions(resp.reason, denyUpdateOldInvalidRPFmt)
           /\ IsAllow =>
                  /\ ~TypeDiffers(req.oldObject, req.object)
                  /\ ~TolerationLost(req.oldObject, req.object)

\* an Update that would store an object failing static validation, with a
\* deletion marker on it, was denied and the stored object is still valid
C21_Witness ==
    /\ DecodedUpdate
    /\ ~IsValid(req.object)
    /\ req.object.deletionTimestamp
    /\ IsDeny
    /\ store = req.oldObject
    /\ IsValid(store)

----------------------------------------------------------------------------
(* C22 *)

\* C22: a stored object that fails static validation can always be
\* removed: a Delete request for it is allowed, every Update of it whose
\* new object carries the deletion marker is allowed, and when the Delete
\* and the finalizer removals are handled fairly the object is eventually
\* gone from the store.
C22_InvalidObjectRemovable ==
    /\ [](Handled /\ req.operation = Delete => IsAllow)
    /\ []((DecodedUpdate /\ ~IsValid(req.oldObject) /\ req.object.deletionTimestamp)
             => IsAllow)
    /\ (store # NoObj /\ ~IsValid(store)) ~> (store = NoObj)

\* the Update that removed the last finalizer of an object failing static
\* validation was allowed and the object is gone
C22_Witness ==
    /\ DecodedUpdate
    /\ ~IsValid(req.oldObject)
    /\ ~IsValid(req.object)
    /\ req.object.deletionTimestamp
    /\ IsAllow
    /\ finalizers = 0
    /\ store = NoObj

----------------------------------------------------------------------------
(* C23 *)

\* an operation that is neither Create nor Update
IsOtherOperation == Handled /\ ~(req.operation = Create \/ req.operation = Update)

\* C23: a request whose operation is neither Create nor Update is allowed
\* and neither of its objects is decoded or validated, so a payload that
\* does not decode gives neither a decode error nor a denial.
C23_OtherOperationsAllowedUndecoded ==
    IsOtherOperation =>
        /\ IsAllow
        /\ resp.reason = <<"any user is allowed to modify v1beta1 RP">>
        /\ calls = <<>>
        /\ ~IsError /\ ~IsDeny

\* a Delete whose object and old object both fail to decode was allowed
C23_Witness ==
    /\ IsOtherOperation
    /\ req.operation = Delete
    /\ req.object = Malformed
    /\ req.oldObject = Malformed
    /\ IsAllow
    /\ calls = <<>>

----------------------------------------------------------------------------
TypeOK ==
    /\ store \in Objects \cup {NoObj}
    /\ req = NoReq <=> resp = NoResp
====
